---- MODULE Spec2Model ----
(***************************************************************************)
(* A model of statshub: the /stats/ request handler (statshub.go) and the  *)
(* periodic BigQuery archiver (package archive).                           *)
(*                                                                         *)
(* Strings that the code parses or formats (the user id path segment, the  *)
(* hash, the hash input) are sequences of one-character strings, so that   *)
(* strconv.Atoi, fmt.Sprintf("%s%d") and the hex comparison are computed   *)
(* rather than assumed.  Time is counted in ticks of five minutes.         *)
(***************************************************************************)
EXTENDS Integers, Sequences, FiniteSets, TLC

VARIABLES
    \* ---- request path (statshub.go) ----
    handlers,   \* the set of concurrently running request goroutines
    clients,    \* "any": arbitrary requests; "honest": well-formed, authenticated
    pc,         \* pc[h]: where handler h is in statsHandler
    req,        \* req[h]: the request being served
    userInfo,   \* userInfo[h]: the UserInfo built by getUserInfo
    stats,      \* stats[h]: the decoded StatsSubmission
    resp,       \* resp[h]: what was written to the ResponseWriter
    calls,      \* calls[h]: calls made while serving (identity provider, store)
    accepted,   \* number of requests accepted so far
    store,      \* aggregation store, dimension user: entity id -> bundle
    submitted,  \* history: per user and counter name, the sum of the values of
                \* the submissions that were answered with 200
    \* ---- archiver (package archive) ----
    projectId,  \* os.Getenv(GOOGLE_PROJECT)
    started,    \* Start() has run
    clock,      \* time.Now(), in ticks
    apc,        \* apc[d]: where dimension d's goroutine is
    nextInterval, \* nextInterval[d]: local of archivePeriodically
    wakeAt,     \* wakeAt[d]: instant at which time.Sleep(waitTime) may return
    readAt,     \* history: instant of the cycle's first time.Now(), kept until
                \* the second
    run,        \* run[d]: the archiveToBigQuery call of the current cycle
    fired,      \* history: the boundary and instant of the last invocation of
                \* archiveToBigQuery per dimension, the boundary before, and
                \* whether the last call that returned gave an error
    \* ---- boundary computation on its own ----
    bNow, bInterval, bResult, bAgain

handlerVars == <<handlers, clients, pc, req, userInfo, stats, resp, calls,
                 accepted, store, submitted>>
archiveVars == <<projectId, started, clock, apc, nextInterval, wakeAt, readAt,
                 run, fired>>
boundaryVars == <<bNow, bInterval, bResult, bAgain>>
vars == <<handlerVars, archiveVars, boundaryVars>>

-----------------------------------------------------------------------------
(* Bounds *)

MaxRequests == 3      \* requests accepted in one behaviour
IntBits == 4          \* width of the stat values (stands for int64)
MaxAfter == 2         \* ticks the clock runs past the first hour boundary
MaxNow == 30          \* instants tried for the boundary computation
MaxInterval == 6      \* intervals tried for the boundary computation

-----------------------------------------------------------------------------
(* Strings as sequences of characters *)

Digits == <<"0", "1", "2", "3", "4", "5", "6", "7", "8", "9">>
HexLower == <<"0", "1", "2", "3", "4", "5", "6", "7", "8", "9",
              "a", "b", "c", "d", "e", "f">>
HexUpper == <<"0", "1", "2", "3", "4", "5", "6", "7", "8", "9",
              "A", "B", "C", "D", "E", "F">>

IsDigit(c) == \E i \in 1..10 : Digits[i] = c
DigitVal(c) == (CHOOSE i \in 1..10 : Digits[i] = c) - 1

\* byte value of a character, for the digest
CharCode(c) ==
    IF IsDigit(c) THEN 48 + DigitVal(c)
    ELSE IF c = "-" THEN 45
    ELSE IF c = "a" THEN 97
    ELSE IF c = "b" THEN 98
    ELSE 120

RECURSIVE DigitsVal(_)
DigitsVal(s) ==
    IF s = <<>> THEN 0
    ELSE 10 * DigitsVal(SubSeq(s, 1, Len(s) - 1)) + DigitVal(s[Len(s)])

\* strconv.Atoi: an optional sign, then one or more decimal digits
Atoi(s) ==
    LET signed == s # <<>> /\ s[1] \in {"-", "+"}
        body == IF signed THEN Tail(s) ELSE s
    IN  IF body = <<>> \/ \E i \in 1..Len(body) : ~IsDigit(body[i])
        THEN [ok |-> FALSE, val |-> 0]
        ELSE [ok |-> TRUE,
              val |-> IF signed /\ s[1] = "-" THEN 0 - DigitsVal(body)
                      ELSE DigitsVal(body)]

RECURSIVE NatToStr(_)
NatToStr(n) ==
    IF n < 10 THEN <<Digits[n + 1]>>
    ELSE NatToStr(n \div 10) \o <<Digits[(n % 10) + 1]>>

\* the %d verb
Itoa(n) == IF n < 0 THEN <<"-">> \o NatToStr(0 - n) ELSE NatToStr(n)

\* strings.ToUpper on a hex string (used to build differently-cased proofs)
ToUpper(s) ==
    [i \in 1..Len(s) |->
        IF \E k \in 1..16 : HexLower[k] = s[i]
        THEN HexUpper[CHOOSE k \in 1..16 : HexLower[k] = s[i]]
        ELSE s[i]]

-----------------------------------------------------------------------------
(* Identity verifier *)

RECURSIVE Digest(_, _)
Digest(s, acc) ==
    IF s = <<>> THEN acc
    ELSE Digest(Tail(s), (acc * 31 + CharCode(Head(s))) % 256)

\* hex.EncodeToString(sha256(input)): a deterministic digest of the input
\* bytes, written in lower-case hex.  The digest is shortened to one byte.
Sha256Hex(input) ==
    LET d == Digest(input, 7)
    IN  <<HexLower[(d \div 16) + 1], HexLower[(d % 16) + 1]>>

\* fmt.Sprintf("%s%d", currentUser.Email, userInfo.UserId)
HashInput(email, userId) == email \o Itoa(userId)

ExpectedHash(email, userId) == Sha256Hex(HashInput(email, userId))

NoUser == <<>>   \* user.CurrentOAuth returned an error

NoError == ""

authenticateAgainst_AnyCase(ui, currentUser) ==
    IF currentUser = NoUser
    THEN [statusCode |-> 401, err |-> "Not authenticated"]
    ELSE IF ToUpper(ExpectedHash(currentUser, ui.UserId)) # ToUpper(ui.Hash)
    THEN [statusCode |-> 403, err |-> "Hash mismatch, authentication failure"]
    ELSE [statusCode |-> 0, err |-> NoError]

\* UserInfo.authenticateAgainst; currentUser is what user.CurrentOAuth gives
authenticateAgainst(ui, currentUser) ==
    IF currentUser = NoUser
    THEN [statusCode |-> 401, err |-> "Not authenticated"]
    ELSE IF ExpectedHash(currentUser, ui.UserId) # ui.Hash
    THEN [statusCode |-> 403, err |-> "Hash mismatch, authentication failure"]
    ELSE [statusCode |-> 0, err |-> NoError]

NoUserInfo == [UserId |-> 0, Hash |-> <<>>]

getUserInfo_SkipHashCount(r) ==
    LET id == Atoi(r.userIdString)
    IN  IF ~id.ok
        THEN [userInfo |-> NoUserInfo, err |-> "Unable to convert userId to int"]
        ELSE IF r.hashes = <<>>
        THEN [userInfo |-> NoUserInfo, err |-> "No hash provided in querystring"]
        ELSE [userInfo |-> [UserId |-> id.val, Hash |-> r.hashes[1]],
              err |-> NoError]

\* getUserInfo.  r.userIdString is r.URL.Path after its last slash (the
\* handler is registered under /stats/, so the last slash is never at 0);
\* r.hashes is r.URL.Query()["hash"], empty when the parameter is absent.
getUserInfo(r) ==
    LET id == Atoi(r.userIdString)
    IN  IF ~id.ok
        THEN [userInfo |-> NoUserInfo, err |-> "Unable to convert userId to int"]
        ELSE IF r.hashes = <<>>
        THEN [userInfo |-> NoUserInfo, err |-> "No hash provided in querystring"]
        ELSE IF Len(r.hashes) # 1
        THEN [userInfo |-> NoUserInfo,
              err |-> "Wrong number of hashes provided in querystring"]
        ELSE [userInfo |-> [UserId |-> id.val, Hash |-> r.hashes[1]],
              err |-> NoError]

-----------------------------------------------------------------------------
(* Stats model and aggregation store *)

\* newStats: a bundle with three empty (non-nil) maps
newStats == [Counter |-> <<>>, Gauge |-> <<>>, Presence |-> <<>>]

IntMod == 2 ^ IntBits
IntMin == 0 - (IntMod \div 2)

\* two's complement wrap of the stat value type
WrapInt(x) == ((x - IntMin) % IntMod) + IntMin

\* a map with no key is written <<>>, whatever computed it
Norm(f) == IF DOMAIN f = {} THEN <<>> ELSE f

Get(f, n) == IF n \in DOMAIN f THEN f[n] ELSE 0

\* counters accumulate (plain addition in the value type)
MergeCounter(old, new) ==
    Norm([n \in DOMAIN old \cup DOMAIN new |->
            IF n \in DOMAIN new THEN WrapInt(Get(old, n) + new[n]) ELSE old[n]])

\* gauges and presence are overwritten
MergeLatest(old, new) ==
    Norm([n \in DOMAIN old \cup DOMAIN new |->
            IF n \in DOMAIN new THEN new[n] ELSE old[n]])

\* query: the bundle stored for the user, empty when nothing was stored
query(st, id) == IF id \in DOMAIN st THEN st[id] ELSE newStats

\* StatsSubmission.postToRedis: one atomic read-modify-write of the entry
\* (dimension user, entity id); the entry is created on first write
postToRedis(st, id, sub) ==
    LET old == query(st, id)
        new == [Counter  |-> MergeCounter(old.Counter, sub.Counter),
                Gauge    |-> MergeLatest(old.Gauge, sub.Gauge),
                Presence |-> MergeLatest(old.Presence, sub.Presence)]
    IN  [e \in DOMAIN st \cup {id} |-> IF e = id THEN new ELSE st[e]]

EmptyStore == [e \in {} |-> newStats]

-----------------------------------------------------------------------------
(* Requests the environment may send *)

Methods == {"GET", "POST", "PUT"}
UserIdStrings == {<<"7">>, <<"4", "2">>, <<"x">>}
Emails == {<<"a">>, <<"b">>}
EntityIds == {Atoi(s).val : s \in {t \in UserIdStrings : Atoi(t).ok}}

HashPool == {ExpectedHash(<<"a">>, 7), ExpectedHash(<<"a">>, 42),
             ToUpper(ExpectedHash(<<"a">>, 7))}
HashParams == {<<>>} \cup {<<x>> : x \in HashPool}
                \cup {<<ExpectedHash(<<"a">>, 7), ExpectedHash(<<"a">>, 7)>>}

CounterNames == {"clicks"}
GaugeNames == {"battery"}
PresenceNames == {"online"}

Undecodable == [ok |-> FALSE, stats |-> newStats]
Bodies ==
    { Undecodable,
      [ok |-> TRUE,
       stats |-> [Counter |-> ("clicks" :> 3), Gauge |-> ("battery" :> 6),
                  Presence |-> <<>>]],
      [ok |-> TRUE,
       stats |-> [Counter |-> ("clicks" :> 5), Gauge |-> ("battery" :> 2),
                  Presence |-> ("online" :> 1)]] }

Requests ==
    [method : Methods, userIdString : UserIdStrings, hashes : HashParams,
     oauth : Emails \cup {NoUser}, body : Bodies]

\* a well-formed request of an authenticated caller carrying the right proof
Honest(r) ==
    /\ r.body.ok
    /\ Atoi(r.userIdString).ok
    /\ r.oauth = <<"a">>
    /\ r.hashes = <<ExpectedHash(r.oauth, Atoi(r.userIdString).val)>>

HonestRequests == {r \in Requests : Honest(r)}

NoRequest ==
    [method |-> "", userIdString |-> <<>>, hashes |-> <<>>, oauth |-> NoUser,
     body |-> Undecodable]

-----------------------------------------------------------------------------
(* statsHandler *)

\* status: the status code sent; n: the number of WriteHeader calls
NoResponse ==
    [status |-> 0, kind |-> "none", Succeeded |-> FALSE, Error |-> NoError,
     stats |-> newStats, n |-> 0]

\* idp: calls of user.CurrentOAuth; reads, writes: calls of query and
\* postToRedis; written: what the store made of the write; overlapped:
\* another request was being served when the write was made
NoCalls ==
    [idp |-> 0, reads |-> 0, writes |-> 0, written |-> "none",
     overlapped |-> FALSE]

\* w.WriteHeader(statusCode) alone
header(statusCode) == [NoResponse EXCEPT !.status = statusCode, !.n = 1]

\* http.ResponseWriter: the first WriteHeader decides the response, a later
\* one is superfluous and only counted
send(w, r) == IF w.n = 0 THEN r ELSE [w EXCEPT !.n = @ + 1]

\* write(w, statusCode, data) for a Response
write(statusCode, succeeded, error) ==
    [status |-> statusCode, kind |-> "response", Succeeded |-> succeeded,
     Error |-> error, stats |-> newStats, n |-> 1]

\* write(w, statusCode, data) for queried stats
writeStats(statusCode, data) ==
    [status |-> statusCode, kind |-> "stats", Succeeded |-> FALSE,
     Error |-> NoError, stats |-> data, n |-> 1]

fail_Succeeded(statusCode, err) == write(statusCode, TRUE, err)

\* fail(w, statusCode, err)
fail(statusCode, err) == write(statusCode, FALSE, err)

\* request goroutines that may run at the same time
Handlers == {1, 2}

HandlerInit(hs, mode) ==
    /\ handlers = hs
    /\ clients = mode
    /\ pc = [h \in Handlers |-> "idle"]
    /\ req = [h \in Handlers |-> NoRequest]
    /\ userInfo = [h \in Handlers |-> NoUserInfo]
    /\ stats = [h \in Handlers |-> newStats]
    /\ resp = [h \in Handlers |-> NoResponse]
    /\ calls = [h \in Handlers |-> NoCalls]
    /\ accepted = 0
    /\ store = EmptyStore
    /\ submitted = [u \in EntityIds |-> [n \in CounterNames |-> 0]]

\* a request arrives and a goroutine starts serving it
Accept(h) ==
    /\ h \in handlers
    /\ pc[h] \in {"idle", "done"}
    /\ accepted < MaxRequests
    /\ \E r \in (IF clients = "honest" THEN HonestRequests ELSE Requests) :
        req' = [req EXCEPT ![h] = r]
    /\ pc' = [pc EXCEPT ![h] = "getUserInfo"]
    /\ userInfo' = [userInfo EXCEPT ![h] = NoUserInfo]
    /\ stats' = [stats EXCEPT ![h] = newStats]
    /\ resp' = [resp EXCEPT ![h] = NoResponse]
    /\ calls' = [calls EXCEPT ![h] = NoCalls]
    /\ accepted' = accepted + 1
    /\ UNCHANGED <<handlers, clients, store, submitted, archiveVars, boundaryVars>>

\* statsHandler, lines 55-59
GetUserInfoStep(h) ==
    /\ pc[h] = "getUserInfo"
    /\ LET r == getUserInfo(req[h])
       IN  IF r.err # NoError
           THEN /\ resp' = [resp EXCEPT ![h] = send(@, fail(400, r.err))]
                /\ pc' = [pc EXCEPT ![h] = "done"]
                /\ UNCHANGED userInfo
           ELSE /\ userInfo' = [userInfo EXCEPT ![h] = r.userInfo]
                /\ pc' = [pc EXCEPT ![h] = "authenticate"]
                /\ UNCHANGED resp
    /\ UNCHANGED <<handlers, clients, req, stats, calls, accepted, store,
                   submitted, archiveVars, boundaryVars>>

AuthenticateStep_NoReturn(h) ==
    /\ pc[h] = "authenticate"
    /\ calls' = [calls EXCEPT ![h].idp = @ + 1]
    /\ LET a == authenticateAgainst(userInfo[h], req[h].oauth)
       IN  IF a.err # NoError
           THEN resp' = [resp EXCEPT ![h] = send(@, fail(a.statusCode, a.err))]
           ELSE UNCHANGED resp
    /\ pc' = [pc EXCEPT ![h] = "dispatch"]
    /\ UNCHANGED <<handlers, clients, req, userInfo, stats, accepted, store,
                   submitted, archiveVars, boundaryVars>>

\* statsHandler, lines 61-65
AuthenticateStep(h) ==
    /\ pc[h] = "authenticate"
    /\ calls' = [calls EXCEPT ![h].idp = @ + 1]
    /\ LET a == authenticateAgainst(userInfo[h], req[h].oauth)
       IN  IF a.err # NoError
           THEN /\ resp' = [resp EXCEPT ![h] = send(@, fail(a.statusCode, a.err))]
                /\ pc' = [pc EXCEPT ![h] = "done"]
           ELSE /\ pc' = [pc EXCEPT ![h] = "dispatch"]
                /\ UNCHANGED resp
    /\ UNCHANGED <<handlers, clients, req, userInfo, stats, accepted, store,
                   submitted, archiveVars, boundaryVars>>

postStatsReturn_AlwaysOk(stored) == [statusCode |-> 200, err |-> NoError]

\* postStats, lines 100-104: what is returned after postToRedis
postStatsReturn(stored) ==
    IF ~stored THEN [statusCode |-> 500, err |-> "Unable to post stats"]
    ELSE [statusCode |-> 200, err |-> NoError]

postTarget_Fixed(ui) == 7

\* postStats, line 100: the entity the submission is merged into
postTarget(ui) == ui.UserId

PostStats_Retry(h) ==
    /\ pc[h] = "dispatch"
    /\ req[h].method = "POST"
    /\ IF ~req[h].body.ok
       THEN /\ resp' = [resp EXCEPT ![h] =
                          send(@, fail(400, "Unable to decode request"))]
            /\ UNCHANGED <<stats, calls, store, submitted>>
       ELSE \E first \in BOOLEAN, second \in BOOLEAN :
            LET sub == req[h].body.stats
                id == postTarget(userInfo[h])
                stored == first \/ second
                r == postStatsReturn(stored)
            IN  /\ stats' = [stats EXCEPT ![h] = sub]
                /\ calls' = [calls EXCEPT
                              ![h].writes = @ + (IF first THEN 1 ELSE 2),
                              ![h].written = IF stored THEN "ok" ELSE "failed"]
                /\ store' = IF stored THEN postToRedis(store, id, sub) ELSE store
                /\ resp' = [resp EXCEPT ![h] =
                              send(@, IF r.err # NoError
                                      THEN fail(r.statusCode, r.err)
                                      ELSE write(200, TRUE, NoError))]
                /\ submitted' =
                     IF r.err = NoError
                     THEN [submitted EXCEPT ![userInfo[h].UserId] =
                             [n \in CounterNames |-> @[n] + Get(sub.Counter, n)]]
                     ELSE submitted
    /\ pc' = [pc EXCEPT ![h] = "done"]
    /\ UNCHANGED <<handlers, clients, req, userInfo, accepted, archiveVars,
                   boundaryVars>>

\* statsHandler, lines 67-75, with postStats; the store either applies the
\* whole submission or fails and applies nothing
PostStats(h) ==
    /\ pc[h] = "dispatch"
    /\ req[h].method = "POST"
    /\ IF ~req[h].body.ok
       THEN /\ resp' = [resp EXCEPT ![h] =
                          send(@, fail(400, "Unable to decode request"))]
            /\ UNCHANGED <<stats, calls, store, submitted>>
       ELSE \E stored \in BOOLEAN :
            LET sub == req[h].body.stats
                id == postTarget(userInfo[h])
                r == postStatsReturn(stored)
            IN  /\ stats' = [stats EXCEPT ![h] = sub]
                /\ calls' = [calls EXCEPT
                              ![h].writes = @ + 1,
                              ![h].written = IF stored THEN "ok" ELSE "failed",
                              ![h].overlapped =
                                 \E g \in Handlers \ {h} :
                                    pc[g] \notin {"idle", "done"}]
                /\ store' = IF stored THEN postToRedis(store, id, sub) ELSE store
                /\ resp' = [resp EXCEPT ![h] =
                              send(@, IF r.err # NoError
                                      THEN fail(r.statusCode, r.err)
                                      ELSE write(200, TRUE, NoError))]
                /\ submitted' =
                     IF r.err = NoError
                     THEN [submitted EXCEPT ![userInfo[h].UserId] =
                             [n \in CounterNames |-> @[n] + Get(sub.Counter, n)]]
                     ELSE submitted
    /\ pc' = [pc EXCEPT ![h] = "done"]
    /\ UNCHANGED <<handlers, clients, req, userInfo, accepted, archiveVars,
                   boundaryVars>>

getTarget_Fixed(ui) == 7

\* getStats, line 114: the entity queried
getTarget(ui) == ui.UserId

\* statsHandler, lines 76-84, with getStats
GetStats(h) ==
    /\ pc[h] = "dispatch"
    /\ req[h].method = "GET"
    /\ \E outcome \in {"connect error", "query error", "ok"} :
        /\ calls' = [calls EXCEPT ![h].reads =
                        IF outcome = "connect error" THEN @ ELSE @ + 1]
        /\ resp' = [resp EXCEPT ![h] =
                     send(@, IF outcome = "connect error"
                             THEN fail(500, "Unable to connect to redis")
                             ELSE IF outcome = "query error"
                             THEN fail(500, "Unable to query stats")
                             ELSE writeStats(200, query(store,
                                                getTarget(userInfo[h]))))]
    /\ pc' = [pc EXCEPT ![h] = "done"]
    /\ UNCHANGED <<handlers, clients, req, userInfo, stats, accepted, store,
                   submitted, archiveVars, boundaryVars>>

MethodNotAllowed_Status200(h) ==
    /\ pc[h] = "dispatch"
    /\ req[h].method \notin {"POST", "GET"}
    /\ resp' = [resp EXCEPT ![h] = send(@, header(200))]
    /\ pc' = [pc EXCEPT ![h] = "done"]
    /\ UNCHANGED <<handlers, clients, req, userInfo, stats, calls, accepted,
                   store, submitted, archiveVars, boundaryVars>>

\* statsHandler, lines 85-88
MethodNotAllowed(h) ==
    /\ pc[h] = "dispatch"
    /\ req[h].method \notin {"POST", "GET"}
    /\ resp' = [resp EXCEPT ![h] = send(@, header(405))]
    /\ pc' = [pc EXCEPT ![h] = "done"]
    /\ UNCHANGED <<handlers, clients, req, userInfo, stats, calls, accepted,
                   store, submitted, archiveVars, boundaryVars>>

-----------------------------------------------------------------------------
(* Periodic archiver *)

Hour == 12                  \* time.Hour, in ticks of five minutes
TenMinutes == Hour \div 6   \* 10*time.Minute
Day == 24 * Hour            \* 24*time.Hour

Dimensions == {"fallback", "country", "user"}

\* the intervals Start passes to archivePeriodically
Interval(d) ==
    IF d = "fallback" THEN TenMinutes
    ELSE IF d = "country" THEN 1 * Hour
    ELSE Day

\* Time.Truncate: round t down to a multiple of d; t itself when d <= 0
Truncate(t, d) == IF d <= 0 THEN t ELSE t - (t % d)

NextBoundary_NoAdd(now, interval) == Truncate(now, interval)

NextBoundary_RoundUp(now, interval) ==
    Truncate(now + interval - 1, interval) + interval

\* archivePeriodically, line 54
NextBoundary(now, interval) == Truncate(now, interval) + interval

\* the behaviours start five minutes before an hour boundary
StartTime == Hour - 1
MaxClock == Hour + MaxAfter

\* a local that holds no value yet
None == 0 - 1
NoRun ==
    [queries |-> 0, tables |-> 0, writes |-> 0, result |-> {}, element |-> "",
     timestamp |-> None, err |-> NoError]
NeverFired == [boundary |-> None, at |-> None, prev |-> None, failed |-> FALSE]

ArchiveInit ==
    /\ projectId \in {"", "statshub-project"}
    /\ started = FALSE
    /\ clock = StartTime
    /\ apc = [d \in Dimensions |-> "off"]
    /\ nextInterval = [d \in Dimensions |-> None]
    /\ wakeAt = [d \in Dimensions |-> None]
    /\ readAt = [d \in Dimensions |-> None]
    /\ run = [d \in Dimensions |-> NoRun]
    /\ fired = [d \in Dimensions |-> NeverFired]

\* the archiver is not part of the behaviour
ArchiveOff ==
    /\ projectId = ""
    /\ started = TRUE
    /\ clock = 0
    /\ apc = [d \in Dimensions |-> "off"]
    /\ nextInterval = [d \in Dimensions |-> None]
    /\ wakeAt = [d \in Dimensions |-> None]
    /\ readAt = [d \in Dimensions |-> None]
    /\ run = [d \in Dimensions |-> NoRun]
    /\ fired = [d \in Dimensions |-> NeverFired]

\* time passes
Tick ==
    /\ clock < MaxClock
    /\ clock' = clock + 1
    /\ UNCHANGED <<projectId, started, apc, nextInterval, wakeAt, readAt, run,
                   fired, handlerVars, boundaryVars>>

Start_IgnoreProject ==
    /\ ~started
    /\ started' = TRUE
    /\ apc' = [d \in Dimensions |-> "idle"]
    /\ UNCHANGED <<projectId, clock, nextInterval, wakeAt, readAt, run, fired,
                   handlerVars, boundaryVars>>

\* Start: one goroutine per dimension, or none without a project
Start ==
    /\ ~started
    /\ started' = TRUE
    /\ apc' = IF projectId = "" THEN apc
              ELSE [d \in Dimensions |-> "idle"]
    /\ UNCHANGED <<projectId, clock, nextInterval, wakeAt, readAt, run, fired,
                   handlerVars, boundaryVars>>

\* line 54: nextInterval := time.Now().Truncate(interval).Add(interval)
ReadNow(d) ==
    /\ apc[d] = "idle"
    /\ nextInterval' = [nextInterval EXCEPT ![d] = NextBoundary(clock, Interval(d))]
    /\ readAt' = [readAt EXCEPT ![d] = clock]
    /\ apc' = [apc EXCEPT ![d] = "computed"]
    /\ UNCHANGED <<projectId, started, clock, wakeAt, run, fired, handlerVars,
                   boundaryVars>>

SleepUntil_Unclamped(now, waitTime) == now + waitTime - 1

\* time.Sleep(waitTime) called at instant now: the earliest instant at which
\* it returns; at once when waitTime <= 0
SleepUntil(now, waitTime) == now + (IF waitTime > 0 THEN waitTime ELSE 0)

\* lines 55-56: waitTime := nextInterval.Sub(time.Now()); time.Sleep(waitTime)
Sleep(d) ==
    /\ apc[d] = "computed"
    /\ LET waitTime == nextInterval[d] - clock
       IN  wakeAt' = [wakeAt EXCEPT ![d] = SleepUntil(clock, waitTime)]
    /\ readAt' = [readAt EXCEPT ![d] = None]
    /\ apc' = [apc EXCEPT ![d] = "sleeping"]
    /\ UNCHANGED <<projectId, started, clock, nextInterval, run, fired,
                   handlerVars, boundaryVars>>

Fire_OneAtATime(d) ==
    /\ apc[d] = "sleeping"
    /\ clock >= wakeAt[d]
    /\ \A e \in Dimensions \ {d} : apc[e] \notin {"query", "table", "write"}
    /\ fired' = [fired EXCEPT ![d] =
                   [boundary |-> nextInterval[d], at |-> clock,
                    prev |-> @.boundary, failed |-> @.failed]]
    /\ run' = [run EXCEPT ![d] = [NoRun EXCEPT !.queries = 1]]
    /\ apc' = [apc EXCEPT ![d] = "query"]
    /\ UNCHANGED <<projectId, started, clock, nextInterval, wakeAt, readAt,
                   handlerVars, boundaryVars>>

\* lines 56-57: Sleep returns, not before wakeAt, and archiveToBigQuery is
\* invoked; line 65: QueryDims is called
Fire(d) ==
    /\ apc[d] = "sleeping"
    /\ clock >= wakeAt[d]
    /\ fired' = [fired EXCEPT ![d] =
                   [boundary |-> nextInterval[d], at |-> clock,
                    prev |-> @.boundary, failed |-> @.failed]]
    /\ run' = [run EXCEPT ![d] = [NoRun EXCEPT !.queries = 1]]
    /\ apc' = [apc EXCEPT ![d] = "query"]
    /\ UNCHANGED <<projectId, started, clock, nextInterval, wakeAt, readAt,
                   handlerVars, boundaryVars>>

\* what QueryDims([]string{dim}) may give: the keys of the result map
QueryResults(d) == {{}, {d}, {d, "other"}}

QueryReturn_Retry(d) ==
    /\ apc[d] = "query"
    /\ \/ /\ run[d].queries < 2
          /\ run' = [run EXCEPT ![d].queries = @ + 1]
          /\ UNCHANGED apc
       \/ /\ run[d].queries >= 2
          /\ run' = [run EXCEPT ![d].err = "query failed"]
          /\ apc' = [apc EXCEPT ![d] = "returned"]
       \/ \E res \in QueryResults(d) :
            IF res = {}
            THEN /\ UNCHANGED run
                 /\ apc' = [apc EXCEPT ![d] = "returned"]
            ELSE \E dimName \in res :
                 /\ run' = [run EXCEPT ![d].result = res,
                                       ![d].element = dimName,
                                       ![d].tables = 1]
                 /\ apc' = [apc EXCEPT ![d] = "table"]
    /\ UNCHANGED <<projectId, started, clock, nextInterval, wakeAt, readAt,
                   fired, handlerVars, boundaryVars>>

\* lines 65-68: QueryDims returns; on an error, or when the result map is
\* empty, archiveToBigQuery returns; otherwise the range statement picks an
\* element (in no particular order) and NewStatsTable is called
QueryReturn(d) ==
    /\ apc[d] = "query"
    /\ \/ /\ run' = [run EXCEPT ![d].err = "query failed"]
          /\ apc' = [apc EXCEPT ![d] = "returned"]
       \/ \E res \in QueryResults(d) :
            IF res = {}
            THEN /\ UNCHANGED run
                 /\ apc' = [apc EXCEPT ![d] = "returned"]
            ELSE \E dimName \in res :
                 /\ run' = [run EXCEPT ![d].result = res,
                                       ![d].element = dimName,
                                       ![d].tables = 1]
                 /\ apc' = [apc EXCEPT ![d] = "table"]
    /\ UNCHANGED <<projectId, started, clock, nextInterval, wakeAt, readAt,
                   fired, handlerVars, boundaryVars>>

TableReturn_StampNext(d) ==
    /\ apc[d] = "table"
    /\ \/ /\ run' = [run EXCEPT ![d].err = "table failed"]
          /\ apc' = [apc EXCEPT ![d] = "returned"]
       \/ /\ run' = [run EXCEPT ![d].writes = @ + 1,
                                ![d].timestamp = NextBoundary(clock, Interval(d))]
          /\ apc' = [apc EXCEPT ![d] = "write"]
    /\ UNCHANGED <<projectId, started, clock, nextInterval, wakeAt, readAt,
                   fired, handlerVars, boundaryVars>>

TableReturn_IgnoreError(d) ==
    /\ apc[d] = "table"
    /\ \E failed \in BOOLEAN :
        run' = [run EXCEPT ![d].writes = @ + 1,
                           ![d].timestamp = Truncate(clock, Interval(d)),
                           ![d].err = IF failed THEN "table failed" ELSE @]
    /\ apc' = [apc EXCEPT ![d] = "write"]
    /\ UNCHANGED <<projectId, started, clock, nextInterval, wakeAt, readAt,
                   fired, handlerVars, boundaryVars>>

\* lines 69-72: NewStatsTable returns; on an error archiveToBigQuery
\* returns it, otherwise WriteStats is called with
\* time.Now().Truncate(interval)
TableReturn(d) ==
    /\ apc[d] = "table"
    /\ \/ /\ run' = [run EXCEPT ![d].err = "table failed"]
          /\ apc' = [apc EXCEPT ![d] = "returned"]
       \/ /\ run' = [run EXCEPT ![d].writes = @ + 1,
                                ![d].timestamp = Truncate(clock, Interval(d))]
          /\ apc' = [apc EXCEPT ![d] = "write"]
    /\ UNCHANGED <<projectId, started, clock, nextInterval, wakeAt, readAt,
                   fired, handlerVars, boundaryVars>>

WriteReturn_NextElement(d) ==
    /\ apc[d] = "write"
    /\ \E ok \in BOOLEAN :
        IF ok /\ run[d].tables < Cardinality(run[d].result)
        THEN /\ \E dimName \in run[d].result \ {run[d].element} :
                    run' = [run EXCEPT ![d].element = dimName,
                                       ![d].tables = @ + 1]
             /\ apc' = [apc EXCEPT ![d] = "table"]
        ELSE /\ run' = [run EXCEPT ![d].err =
                                    IF ok THEN NoError ELSE "write failed"]
             /\ apc' = [apc EXCEPT ![d] = "returned"]
    /\ UNCHANGED <<projectId, started, clock, nextInterval, wakeAt, readAt,
                   fired, handlerVars, boundaryVars>>

\* line 72: WriteStats returns, and its error is returned as the cycle's
WriteReturn(d) ==
    /\ apc[d] = "write"
    /\ \E ok \in BOOLEAN :
        run' = [run EXCEPT ![d].err = IF ok THEN NoError ELSE "write failed"]
    /\ apc' = [apc EXCEPT ![d] = "returned"]
    /\ UNCHANGED <<projectId, started, clock, nextInterval, wakeAt, readAt,
                   fired, handlerVars, boundaryVars>>

Loop_ExitOnError(d) ==
    /\ apc[d] = "returned"
    /\ apc' = [apc EXCEPT ![d] = IF run[d].err # NoError THEN "off" ELSE "idle"]
    /\ nextInterval' = [nextInterval EXCEPT ![d] = None]
    /\ wakeAt' = [wakeAt EXCEPT ![d] = None]
    /\ run' = [run EXCEPT ![d] = NoRun]
    /\ fired' = [fired EXCEPT ![d].failed = run[d].err # NoError]
    /\ UNCHANGED <<projectId, started, clock, readAt, handlerVars,
                   boundaryVars>>

\* lines 57-60: the error, if any, is logged and the loop starts over; the
\* locals of the iteration go out of scope
Loop(d) ==
    /\ apc[d] = "returned"
    /\ apc' = [apc EXCEPT ![d] = "idle"]
    /\ nextInterval' = [nextInterval EXCEPT ![d] = None]
    /\ wakeAt' = [wakeAt EXCEPT ![d] = None]
    /\ run' = [run EXCEPT ![d] = NoRun]
    /\ fired' = [fired EXCEPT ![d].failed = run[d].err # NoError]
    /\ UNCHANGED <<projectId, started, clock, readAt, handlerVars,
                   boundaryVars>>

-----------------------------------------------------------------------------
(* The boundary computation for arbitrary instants and intervals *)

BoundaryInit ==
    /\ bNow \in 0..MaxNow
    /\ bInterval \in 1..MaxInterval
    /\ bResult = None
    /\ bAgain = None

BoundaryOff ==
    /\ bNow = 0
    /\ bInterval = 1
    /\ bResult = None
    /\ bAgain = None

ComputeBoundary ==
    /\ bResult = None
    /\ bResult' = NextBoundary(bNow, bInterval)
    /\ UNCHANGED <<bNow, bInterval, bAgain, handlerVars, archiveVars>>

ComputeAgain ==
    /\ bResult # None
    /\ bAgain = None
    /\ bAgain' = NextBoundary(bNow, bInterval)
    /\ UNCHANGED <<bNow, bInterval, bResult, handlerVars, archiveVars>>

-----------------------------------------------------------------------------
(* Specifications *)

\* the request goroutines
Next ==
    \E h \in Handlers :
        \/ Accept(h)
        \/ GetUserInfoStep(h)
        \/ AuthenticateStep(h)
        \/ PostStats(h)
        \/ GetStats(h)
        \/ MethodNotAllowed(h)

\* one request goroutine at a time, arbitrary requests
Init == HandlerInit({1}, "any") /\ ArchiveOff /\ BoundaryOff
Spec == Init /\ [][Next]_vars

\* two concurrent request goroutines, well-formed authenticated requests
InitConcurrent == HandlerInit({1, 2}, "honest") /\ ArchiveOff /\ BoundaryOff
SpecConcurrent == InitConcurrent /\ [][Next]_vars

\* the archiver goroutines
InitArchive == HandlerInit({}, "any") /\ ArchiveInit /\ BoundaryOff
NextArchive ==
    \/ Tick
    \/ Start
    \/ \E d \in Dimensions :
        \/ ReadNow(d)
        \/ Sleep(d)
        \/ Fire(d)
        \/ QueryReturn(d)
        \/ TableReturn(d)
        \/ WriteReturn(d)
        \/ Loop(d)
SpecArchive == InitArchive /\ [][NextArchive]_vars

\* the whole service: Start, the archiver goroutines and the request path;
\* requests are followed in the configuration without a project
InitService ==
    /\ ArchiveInit
    /\ BoundaryOff
    /\ IF projectId = "" THEN HandlerInit({1}, "honest")
       ELSE HandlerInit({}, "honest")
NextService == Next \/ NextArchive
SpecService == InitService /\ [][NextService]_vars

\* the archiver goroutines under the scheduling the runtime gives: the clock
\* advances, Start is called, and a goroutine that can take a step of its
\* loop takes it; nothing makes QueryDims, NewStatsTable or WriteStats return
FairArchive ==
    /\ WF_vars(Tick)
    /\ WF_vars(Start)
    /\ \A d \in Dimensions :
        /\ WF_vars(ReadNow(d))
        /\ WF_vars(Sleep(d))
        /\ WF_vars(Fire(d))
        /\ WF_vars(Loop(d))
SpecArchiveLive == InitArchive /\ [][NextArchive]_vars /\ FairArchive

\* the boundary computation alone
InitBoundary == HandlerInit({}, "any") /\ ArchiveOff /\ BoundaryInit
NextBoundaryStep == ComputeBoundary \/ ComputeAgain
SpecBoundary == InitBoundary /\ [][NextBoundaryStep]_vars

-----------------------------------------------------------------------------
(* Properties of the request path *)

Done(h) == pc[h] = "done"
BadId(r) == ~Atoi(r.userIdString).ok
BadHash(r) == Len(r.hashes) # 1
Authenticated(r) == r.oauth # NoUser
ProofMatches(r) ==
    r.hashes[1] = ExpectedHash(r.oauth, Atoi(r.userIdString).val)
SameExceptCase(a, b) == a # b /\ ToUpper(a) = ToUpper(b)

\* C1: once authenticateAgainst has run for id U and proof H, the request is
\* answered 401 when no caller is authenticated, whatever H is; with caller R
\* it goes on exactly when H = hash(R, U), and is answered 403 for every
\* other H, also one that differs from hash(R, U) only in letter case.
C1_AuthenticationOutcome ==
    \A h \in Handlers :
        calls[h].idp > 0 =>
            LET U == userInfo[h].UserId
                H == userInfo[h].Hash
                R == req[h].oauth
            IN  /\ calls[h].idp = 1
                /\ R = NoUser => Done(h) /\ resp[h].status = 401
                /\ R # NoUser /\ H = ExpectedHash(R, U) =>
                        resp[h].status \notin {401, 403}
                /\ R # NoUser /\ H # ExpectedHash(R, U) =>
                        Done(h) /\ resp[h].status = 403
                /\ R # NoUser /\ SameExceptCase(H, ExpectedHash(R, U)) =>
                        resp[h].status = 403

\* a proof that is the expected one in upper case was answered 403
C1_Witness ==
    \E h \in Handlers :
        /\ Done(h)
        /\ resp[h].status = 403
        /\ req[h].oauth # NoUser
        /\ SameExceptCase(userInfo[h].Hash,
                          ExpectedHash(req[h].oauth, userInfo[h].UserId))

\* the request ended with 400 from getUserInfo, with 401 or with 403
Rejected(h) ==
    /\ Done(h)
    /\ \/ resp[h].status \in {401, 403}
       \/ resp[h].status = 400 /\ calls[h].idp = 0

\* C2: a request that ends with 400 from getUserInfo, 401 or 403 has made
\* no call of query or postToRedis, has decoded no body, and the step that
\* ends it leaves the store as it was.
C2_RejectedLeavesStore ==
    /\ [](\A h \in Handlers :
            Rejected(h) =>
                /\ calls[h].reads = 0
                /\ calls[h].writes = 0
                /\ stats[h] = newStats)
    /\ [][\A h \in Handlers :
            (~Done(h) /\ Rejected(h)') => store' = store]_vars

\* a POST with a decodable body was answered 403 while the store held data
C2_Witness ==
    \E h \in Handlers :
        /\ Rejected(h)
        /\ resp[h].status = 403
        /\ req[h].method = "POST"
        /\ req[h].body.ok
        /\ store # EmptyStore

Applies(h) ==
    /\ pc[h] = "dispatch"
    /\ Done(h)'
    /\ req[h].method = "POST"
    /\ resp'[h].status = 200

SameEntry(old, new, n) ==
    /\ (n \in DOMAIN old) = (n \in DOMAIN new)
    /\ n \in DOMAIN old => new[n] = old[n]

LatestWins(old, sub, new, names) ==
    \A n \in names :
        IF n \in DOMAIN sub
        THEN n \in DOMAIN new /\ new[n] = sub[n]
        ELSE SameEntry(old, new, n)

\* C4: a submission that is applied sets every gauge and presence name it
\* contains to the value it carries and leaves the names it does not contain
\* as they were; no other step changes a gauge or presence value.  So the
\* stored value is that of the last applied submission containing the name.
C4_LastWriteWins ==
    [][/\ \A h \in Handlers :
            Applies(h) =>
                LET u == userInfo[h].UserId
                    sub == req[h].body.stats
                IN  /\ LatestWins(query(store, u).Gauge, sub.Gauge,
                                  query(store', u).Gauge, GaugeNames)
                    /\ LatestWins(query(store, u).Presence, sub.Presence,
                                  query(store', u).Presence, PresenceNames)
       /\ (\A h \in Handlers : ~Applies(h)) =>
            \A u \in EntityIds :
                /\ query(store', u).Gauge = query(store, u).Gauge
                /\ query(store', u).Presence = query(store, u).Presence]_vars

\* user 7 submitted battery 2 with online 1 and then battery 6 without
\* online: battery is 6 and online is still 1
C4_Witness ==
    /\ \A h \in Handlers :
        /\ Done(h)
        /\ req[h].method = "POST"
        /\ userInfo[h].UserId = 7
        /\ resp[h].status = 200
    /\ \E h \in Handlers : "battery" \in DOMAIN req[h].body.stats.Gauge
                           /\ req[h].body.stats.Gauge["battery"] = 2
    /\ \E h \in Handlers : "online" \notin DOMAIN req[h].body.stats.Presence
    /\ 7 \in DOMAIN store
    /\ store[7].Gauge = ("battery" :> 6)
    /\ store[7].Presence = ("online" :> 1)

\* C5: the step that serves an authenticated request for id U leaves the
\* entry of every other user as it was; a POST that is applied merges its
\* bundle into the entry of U, a GET changes no entry and answers with the
\* entry of U; no other step changes the store.
C5_OnlyOwnEntry ==
    [][/\ \A h \in Handlers :
            (pc[h] = "dispatch" /\ Done(h)') =>
                LET U == Atoi(req[h].userIdString).val
                    sub == req[h].body.stats
                IN  /\ DOMAIN store' \subseteq DOMAIN store \cup {U}
                    /\ \A e \in DOMAIN store \ {U} :
                            e \in DOMAIN store' /\ store'[e] = store[e]
                    /\ req[h].method = "GET" =>
                        /\ store' = store
                        /\ resp'[h].status = 200 =>
                                resp'[h].stats = query(store, U)
                    /\ Applies(h) =>
                        /\ U \in DOMAIN store'
                        /\ \A n \in CounterNames :
                            Get(store'[U].Counter, n) =
                                WrapInt(Get(query(store, U).Counter, n)
                                        + Get(sub.Counter, n))
                        /\ LatestWins(query(store, U).Gauge, sub.Gauge,
                                      store'[U].Gauge, GaugeNames)
                        /\ LatestWins(query(store, U).Presence, sub.Presence,
                                      store'[U].Presence, PresenceNames)
                    /\ ~Applies(h) => store' = store
       /\ (\A h \in Handlers : ~(pc[h] = "dispatch" /\ Done(h)')) =>
            store' = store]_vars

\* a GET for user 42 was answered with the entry of 42 while user 7 had a
\* different entry
C5_Witness ==
    \E h \in Handlers :
        /\ Done(h)
        /\ req[h].method = "GET"
        /\ userInfo[h].UserId = 42
        /\ resp[h].status = 200
        /\ DOMAIN store = {7, 42}
        /\ store[7] # store[42]
        /\ resp[h].stats = store[42]

\* the status of a request that is stopped before the method is looked at
\* (0 when it is not stopped there)
EarlyStatus(r) ==
    IF BadId(r) \/ BadHash(r) THEN 400
    ELSE IF ~Authenticated(r) THEN 401
    ELSE IF ~ProofMatches(r) THEN 403
    ELSE 0

\* C6 as stated: every request whose method is neither GET nor POST is
\* answered with 405.
C6_Original ==
    \A h \in Handlers :
        (Done(h) /\ req[h].method \notin {"GET", "POST"}) =>
            resp[h].status = 405

\* C6: a request whose method is neither GET nor POST is answered with 405
\* when it passes getUserInfo and the authentication; otherwise it is
\* answered with the 400, 401 or 403 of the check it fails.
C6_OtherMethods ==
    \A h \in Handlers :
        (Done(h) /\ req[h].method \notin {"GET", "POST"}) =>
            /\ resp[h].n = 1
            /\ resp[h].status =
                 IF EarlyStatus(req[h]) # 0 THEN EarlyStatus(req[h]) ELSE 405

\* an authenticated PUT with the right proof was answered 405
C6_Witness ==
    \E h \in Handlers :
        /\ Done(h)
        /\ req[h].method = "PUT"
        /\ EarlyStatus(req[h]) = 0
        /\ resp[h].status = 405

\* C7 as stated: a bad id, a missing or repeated hash, or an undecodable
\* POST body is answered with 400 whatever the authentication state, and
\* for the id and hash cases the identity provider is not consulted.
C7_Original ==
    \A h \in Handlers :
        Done(h) =>
            /\ (\/ BadId(req[h])
                \/ BadHash(req[h])
                \/ req[h].method = "POST" /\ ~req[h].body.ok) =>
                    resp[h].status = 400
            /\ (BadId(req[h]) \/ BadHash(req[h])) => calls[h].idp = 0

\* C7: a bad id or a missing or repeated hash is answered with 400 whatever
\* the authentication state, without the identity provider or the store
\* being called; an undecodable POST body is answered with 400 when the
\* request passes getUserInfo and the authentication, and with the 401 or
\* 403 of the authentication otherwise; the store is not called.
C7_MalformedRequests ==
    \A h \in Handlers :
        Done(h) =>
            /\ (BadId(req[h]) \/ BadHash(req[h])) =>
                /\ resp[h].status = 400
                /\ ~resp[h].Succeeded /\ resp[h].Error # NoError
                /\ calls[h].idp = 0
                /\ calls[h].reads = 0 /\ calls[h].writes = 0
            /\ (/\ ~BadId(req[h]) /\ ~BadHash(req[h])
                /\ req[h].method = "POST" /\ ~req[h].body.ok) =>
                /\ resp[h].status =
                     IF EarlyStatus(req[h]) # 0 THEN EarlyStatus(req[h])
                     ELSE 400
                /\ ~resp[h].Succeeded /\ resp[h].Error # NoError
                /\ calls[h].writes = 0

\* an authenticated POST with the right proof and an undecodable body was
\* answered 400 after the identity provider had been asked
C7_Witness ==
    \E h \in Handlers :
        /\ Done(h)
        /\ req[h].method = "POST"
        /\ ~req[h].body.ok
        /\ EarlyStatus(req[h]) = 0
        /\ calls[h].idp = 1
        /\ resp[h].status = 400

\* C8: an authenticated POST with a decodable body calls postToRedis exactly
\* once; when the write succeeds the answer is 200 with Succeeded = true,
\* when it fails the answer is 500 with Succeeded = false and the error text.
C8_OneWriteAttempt ==
    \A h \in Handlers :
        (/\ Done(h)
         /\ req[h].method = "POST"
         /\ req[h].body.ok
         /\ EarlyStatus(req[h]) = 0) =>
            /\ calls[h].writes = 1
            /\ resp[h].n = 1
            /\ resp[h].kind = "response"
            /\ calls[h].written = "ok" =>
                /\ resp[h].status = 200
                /\ resp[h].Succeeded
            /\ calls[h].written = "failed" =>
                /\ resp[h].status = 500
                /\ ~resp[h].Succeeded
                /\ resp[h].Error = "Unable to post stats"
            /\ calls[h].written \in {"ok", "failed"}

\* a write that failed was answered 500 after one attempt, the store unchanged
C8_Witness ==
    \E h \in Handlers :
        /\ Done(h)
        /\ req[h].method = "POST"
        /\ calls[h].written = "failed"
        /\ calls[h].writes = 1
        /\ resp[h].status = 500
        /\ store = EmptyStore

-----------------------------------------------------------------------------
(* Properties of the archiver *)

\* the goroutine of d is inside archiveToBigQuery, or back from it
Firing(d) == apc[d] \in {"query", "table", "write", "returned"}

\* b is the first multiple of interval after the instant t
FirstBoundaryAfter(b, t, interval) ==
    /\ b % interval = 0
    /\ t < b
    /\ b <= t + interval

\* C9 as stated: no boundary is skipped and none is served twice, whatever
\* the preceding run lasted.  After an invocation made at its boundary, the
\* boundary the next cycle settles on is the one that follows it.
C9_Original ==
    \A d \in Dimensions :
        (/\ apc[d] \in {"computed", "sleeping"}
         /\ fired[d].boundary # None
         /\ fired[d].at = fired[d].boundary) =>
            nextInterval[d] = fired[d].boundary + Interval(d)

\* C9: every cycle settles on the first interval boundary after the instant
\* at which it read the clock and invokes the archive call once, not before
\* that boundary; the boundaries of successive invocations are multiples of
\* the interval and strictly increase, so none is served twice; and the
\* boundary right after the one served last is the next to be served whenever
\* the next cycle reads the clock before it, so a boundary is skipped only
\* when the preceding run or wake-up lasts until it.
C9_OncePerBoundaryInTime ==
    \A d \in Dimensions :
        /\ apc[d] = "computed" =>
            /\ FirstBoundaryAfter(nextInterval[d], readAt[d], Interval(d))
            /\ (fired[d].boundary # None
                /\ readAt[d] < fired[d].boundary + Interval(d)) =>
                    nextInterval[d] = fired[d].boundary + Interval(d)
        /\ apc[d] = "sleeping" =>
            /\ wakeAt[d] >= nextInterval[d]
            /\ fired[d].boundary # None => nextInterval[d] > fired[d].boundary
        /\ Firing(d) =>
            /\ fired[d].boundary = nextInterval[d]
            /\ fired[d].at >= fired[d].boundary
            /\ clock >= fired[d].at
            /\ run[d].queries = 1
        /\ fired[d].boundary # None => fired[d].boundary % Interval(d) = 0
        /\ fired[d].prev # None =>
            /\ fired[d].prev % Interval(d) = 0
            /\ fired[d].boundary > fired[d].prev

\* the fallback dimension was archived for the boundary at the hour and is
\* now, ten minutes later, archived for the boundary that follows it
C9_Witness ==
    /\ apc["fallback"] = "query"
    /\ fired["fallback"].prev = Hour
    /\ fired["fallback"].boundary = Hour + TenMinutes
    /\ fired["fallback"].at = Hour + TenMinutes

\* C10: the boundary computed for an instant now and a positive interval is
\* later than now, at most one interval later, a multiple of the interval,
\* and the same when it is computed again for the same instant.
C10_NextBoundary ==
    bResult # None =>
        /\ bResult > bNow
        /\ bResult <= bNow + bInterval
        /\ bResult % bInterval = 0
        /\ bAgain # None => bAgain = bResult

\* computed twice for an instant inside an interval
C10_Witness ==
    /\ bNow = 7
    /\ bInterval = 3
    /\ bResult = 9
    /\ bAgain = 9

\* what the warehouse writer has been handed in the current cycle of d
Written(d) == IF run[d].writes > 0 THEN {run[d].element} ELSE {}

\* C13 as stated: the timestamp handed to the writer is the boundary the
\* cycle settled on when it computed its wait, whatever the query and the
\* table creation lasted (here for the cycles that fire at their boundary).
C13_Original ==
    \A d \in Dimensions :
        (run[d].writes > 0 /\ fired[d].at = nextInterval[d]) =>
            run[d].timestamp = nextInterval[d]

\* C13: the timestamp handed to the writer is the clock truncated to the
\* interval at the instant the writer is called.  It is a multiple of the
\* interval, never earlier than the boundary the cycle settled on, and equal
\* to it as long as the following boundary has not been reached.
C13_TimestampAtWrite ==
    /\ [](\A d \in Dimensions :
            run[d].writes > 0 =>
                /\ run[d].timestamp % Interval(d) = 0
                /\ run[d].timestamp >= nextInterval[d]
                /\ run[d].timestamp <= clock
                /\ clock < nextInterval[d] + Interval(d) =>
                        run[d].timestamp = nextInterval[d])
    /\ [][\A d \in Dimensions :
            (run[d].writes = 0 /\ run'[d].writes > 0) =>
                /\ run'[d].timestamp = Truncate(clock, Interval(d))
                /\ run'[d].timestamp > clock - Interval(d)]_vars

\* the country dimension's query and table creation took five minutes and
\* the writer was handed the hour boundary the cycle had waited for
C13_Witness ==
    /\ apc["country"] = "write"
    /\ nextInterval["country"] = Hour
    /\ fired["country"].at = Hour
    /\ clock = Hour + 1
    /\ run["country"].timestamp = Hour

C16_AtMostOncePerCycle ==
    /\ [](\A d \in Dimensions :
            /\ run[d].queries <= 1
            /\ run[d].writes <= 1
            /\ Firing(d) => run[d].queries = 1
            /\ ~Firing(d) => run[d].queries = 0 /\ run[d].writes = 0)
    /\ [][\A d \in Dimensions :
            /\ run'[d].queries > run[d].queries => apc[d] = "sleeping"
            /\ run'[d].writes > run[d].writes =>
                    apc[d] = "table" /\ run[d].writes = 0
            /\ apc[d] = "returned" => apc'[d] \in {"returned", "idle"}]_vars

\* a cycle whose write failed is back from archiveToBigQuery after one query
\* and one write
C16_Witness ==
    \E d \in Dimensions :
        /\ apc[d] = "returned"
        /\ run[d].err = "write failed"
        /\ run[d].queries = 1
        /\ run[d].writes = 1

\* C17: when the query result holds several elements, one table is created
\* and at most one write is made, both for the element iterated first; the
\* run goes from the table creation to the write or to its return and from
\* the write to its return, so the outcome of the cycle is that element's.
C17_FirstElementOnly ==
    /\ [](\A d \in Dimensions :
            Cardinality(run[d].result) > 1 =>
                /\ run[d].tables = 1
                /\ run[d].element \in run[d].result
                /\ Written(d) \subseteq {run[d].element}
                /\ run[d].err \in {NoError, "table failed", "write failed"}
                /\ run[d].err = "table failed" => Written(d) = {}
                /\ run[d].err = "write failed" => Written(d) # {})
    /\ [][\A d \in Dimensions :
            Cardinality(run[d].result) > 1 =>
                /\ apc[d] = "table" => apc'[d] \in {"table", "write", "returned"}
                /\ apc[d] = "write" => apc'[d] \in {"write", "returned"}
                /\ apc[d] \in {"table", "write"} =>
                        run'[d].element = run[d].element]_vars

\* of two elements the one iterated first was written, the cycle is reported
\* as succeeded and the other element was not written
C17_Witness ==
    \E d \in Dimensions :
        /\ apc[d] = "returned"
        /\ run[d].result = {d, "other"}
        /\ run[d].element = "other"
        /\ Written(d) = {"other"}
        /\ run[d].err = NoError

\* C18: archiveToBigQuery is invoked at or after the boundary the cycle
\* computed; the sleep ends no earlier than that boundary, and at the instant
\* it was called when the wait was zero or negative.
C18_NeverEarly ==
    \A d \in Dimensions :
        /\ apc[d] = "sleeping" =>
            /\ wakeAt[d] >= nextInterval[d]
            /\ wakeAt[d] <= clock \/ wakeAt[d] = nextInterval[d]
        /\ Firing(d) =>
            /\ fired[d].boundary = nextInterval[d]
            /\ fired[d].at >= nextInterval[d]
            /\ fired[d].at >= wakeAt[d]
            /\ clock >= nextInterval[d]

\* the second clock read came after the boundary, the wait was negative and
\* the archive call was made at once, after the boundary
C18_Witness ==
    \E d \in Dimensions :
        /\ apc[d] = "query"
        /\ wakeAt[d] > nextInterval[d]
        /\ fired[d].at = wakeAt[d]
        /\ clock = wakeAt[d]

\* C19: the writer is invoked only after a query that returned an element
\* and a table creation that succeeded; a query error and a table-creation
\* error end the cycle as its error with no write; an empty result ends the
\* cycle with no error, no table and no write.
C19_WritePreconditions ==
    \A d \in Dimensions :
        /\ run[d].writes > 0 =>
            /\ run[d].tables = 1
            /\ run[d].result # {}
            /\ run[d].element \in run[d].result
            /\ run[d].err \in {NoError, "write failed"}
        /\ run[d].err = "query failed" =>
            /\ apc[d] = "returned"
            /\ run[d].tables = 0 /\ run[d].writes = 0
        /\ run[d].err = "table failed" =>
            /\ apc[d] = "returned"
            /\ run[d].tables = 1 /\ run[d].writes = 0
        /\ (apc[d] = "returned" /\ run[d].tables = 0
            /\ run[d].err # "query failed") =>
            /\ run[d].err = NoError
            /\ run[d].result = {}
            /\ run[d].writes = 0

\* the table creation failed and the cycle ended with that error, unwritten
C19_Witness ==
    \E d \in Dimensions :
        /\ apc[d] = "returned"
        /\ run[d].err = "table failed"
        /\ run[d].queries = 1
        /\ run[d].writes = 0

StatusCodes == {200, 400, 401, 403, 405, 500}

\* C20: a request that has been handled was sent exactly one status code and
\* none before; a response with Succeeded = false carries an error text and
\* a status other than 200; the answer to a POST is a Response whose
\* Succeeded is true exactly when the status is 200; the answer to a GET is
\* the queried stats with 200 or a failure Response with another status.
C20_OneStatusAndBody ==
    \A h \in Handlers :
        /\ ~Done(h) => resp[h].n = 0
        /\ Done(h) =>
            /\ resp[h].n = 1
            /\ resp[h].status \in StatusCodes
            /\ (resp[h].kind = "response" /\ ~resp[h].Succeeded) =>
                /\ resp[h].Error # NoError
                /\ resp[h].status # 200
            /\ req[h].method = "POST" =>
                /\ resp[h].kind = "response"
                /\ resp[h].Succeeded <=> resp[h].status = 200
                /\ resp[h].Succeeded => resp[h].Error = NoError
            /\ req[h].method = "GET" =>
                /\ resp[h].status = 200 <=> resp[h].kind = "stats"
                /\ resp[h].status # 200 =>
                        resp[h].kind = "response" /\ ~resp[h].Succeeded

\* a POST whose write failed was answered once, with 500, Succeeded = false
\* and the error text
C20_Witness ==
    \E h \in Handlers :
        /\ Done(h)
        /\ req[h].method = "POST"
        /\ resp[h].n = 1
        /\ resp[h].status = 500
        /\ ~resp[h].Succeeded
        /\ resp[h].Error # NoError

\* the request of handler h was answered as statsHandler answers a
\* well-formed request of an authenticated caller
AnsweredNormally(h) ==
    /\ resp[h].n = 1
    /\ req[h].method = "POST" =>
        /\ calls[h].writes = 1
        /\ calls[h].written = "ok" =>
            /\ resp[h].status = 200 /\ resp[h].Succeeded
            /\ userInfo[h].UserId \in DOMAIN store
        /\ calls[h].written = "failed" => resp[h].status = 500
    /\ req[h].method = "GET" =>
        /\ resp[h].status \in {200, 500}
        /\ resp[h].status = 200 => resp[h].stats = query(store, userInfo[h].UserId)
    /\ req[h].method \notin {"POST", "GET"} => resp[h].status = 405

Waiting(d) ==
    \/ apc[d] = "sleeping" /\ clock < wakeAt[d]
    \/ apc[d] \in {"query", "table", "write"}

\* C11: the loop of a dimension never ends; when archiveToBigQuery has
\* returned, the loop goes on to its next clock read, after an error as after
\* a success, and settles on the first boundary after that read; and every
\* loop is again and again waiting for a boundary that
\* has not come or for a call to return: it does not stay behind a call that
\* returned, and it does not stay asleep at or past the boundary it waits for.
C11_LoopNeverExits ==
    /\ [][\A d \in Dimensions :
            /\ apc[d] # "off" => apc'[d] # "off"
            /\ (apc[d] = "returned" /\ apc'[d] # "returned") =>
                /\ apc'[d] = "idle"
                /\ fired'[d].failed = (run[d].err # NoError)]_vars
    /\ [](\A d \in Dimensions :
            (apc[d] = "computed" /\ fired[d].failed) =>
                FirstBoundaryAfter(nextInterval[d], readAt[d], Interval(d)))
    /\ []<>(projectId # "" => \A d \in Dimensions : Waiting(d))

\* the fallback cycle for the hour boundary returned an error, and the next
\* cycle fires at the boundary ten minutes later
C11_Witness ==
    /\ apc["fallback"] = "query"
    /\ fired["fallback"].failed
    /\ fired["fallback"].prev = Hour
    /\ fired["fallback"].boundary = Hour + TenMinutes
    /\ fired["fallback"].at = Hour + TenMinutes

\* the locals and the history of the loop of dimension d
Local(d) == <<apc[d], nextInterval[d], wakeAt[d], readAt[d], run[d], fired[d]>>

\* C12: a step of one dimension's loop, once Start has launched the loops,
\* changes nothing of another's; a loop
\* that sleeps can fire as soon as the instant it waits for has come, and a
\* loop at any other step of its own can take it, whatever the other loops
\* are doing; and a loop that waits for an instant within the time that is
\* followed fires for its boundary, also in the behaviours in which another
\* loop's query, table creation or write never returns.
C12_IndependentSchedules ==
    /\ [][\A d \in Dimensions : \A e \in Dimensions \ {d} :
            (apc[d] # "off" /\ apc'[d] # apc[d]) => Local(e)' = Local(e)]_vars
    /\ [](\A e \in Dimensions :
            /\ (apc[e] = "sleeping" /\ clock >= wakeAt[e]) => ENABLED Fire(e)
            /\ apc[e] = "idle" => ENABLED ReadNow(e)
            /\ apc[e] = "computed" => ENABLED Sleep(e)
            /\ apc[e] = "returned" => ENABLED Loop(e))
    /\ \A e \in Dimensions :
        (apc[e] = "sleeping" /\ wakeAt[e] <= MaxClock)
            ~> (apc[e] = "query" /\ fired[e].boundary = nextInterval[e])

\* the first query of the fallback dimension has not returned, and the
\* country dimension, woken five minutes late, fired for its hour boundary
\* while that query was outstanding
C12_Witness ==
    /\ apc["fallback"] = "query"
    /\ fired["fallback"].prev = None
    /\ fired["fallback"].at = Hour
    /\ Firing("country")
    /\ fired["country"].boundary = Hour
    /\ fired["country"].at = Hour + 1

====
